---- MODULE Spec2Model ----
(***************************************************************************)
(* Model of the mantis audio pipeline: the three public entry points       *)
(* (transcribe, summarize, extract) and process_audio_with_gemini with the *)
(* download retry wrapper, the process-wide upload cache, the readiness    *)
(* wait loop, the stage-boundary exception handlers and the finally block. *)
(***************************************************************************)
EXTENDS Integers, Sequences, FiniteSets, TLC

\* ------------------------------------------------------------------ bounds
MaxInvocations == 2
MaxTouch == 1
PollTimeout == 2
MaxBytes == 2

\* --------------------------------------------------------- retry wrapper
\* stop_after_attempt(3); one attempt too many when off by one
StopAfterAttemptBug == 3 + 1
StopAfterAttempt == 3

\* ---------------------------------------------------------- error kinds
MantisErrors ==
  {"AudioProcessingError", "YouTubeDownloadError", "ModelInferenceError", "ValidationError"}

\* --------------------------------------------------------------- inputs
\* An audio_file argument, given by the parts the code inspects: the scheme
\* and the network location urlparse finds (the netloc as the sequence of
\* pieces its substrings are tested on), the suffix endswith is tested on,
\* and whether a file of that name exists on disk.
AudioFiles ==
  { [text |-> "",            scheme |-> "", netloc |-> <<>>, suffix |-> "",     exists |-> FALSE],
    [text |-> "a.mp3",       scheme |-> "", netloc |-> <<>>, suffix |-> ".mp3", exists |-> TRUE],
    [text |-> "notes.txt",   scheme |-> "", netloc |-> <<>>, suffix |-> ".txt", exists |-> TRUE],
    [text |-> "missing.txt", scheme |-> "", netloc |-> <<>>, suffix |-> ".txt", exists |-> FALSE],
    [text |-> "https://www.youtube.com/watch?v=x", scheme |-> "https",
       netloc |-> <<"www.", "youtube.com">>, suffix |-> "?v=x", exists |-> FALSE],
    [text |-> "http://example.com/a.mp3", scheme |-> "http",
       netloc |-> <<"example.com">>, suffix |-> ".mp3", exists |-> FALSE] }

\* The file stream_youtube_audio downloads to: <tempdir>/mantis_yt_<hash>.mp3
TempFile == [text |-> "mantis_yt.mp3", scheme |-> "", netloc |-> <<>>, suffix |-> ".mp3", exists |-> TRUE]

SUPPORTED_AUDIO_FORMATS == {".mp3", ".wav", ".m4a", ".ogg", ".flac", ".aac"}

Lower(s) == IF s = ".MP3" THEN ".mp3" ELSE IF s = ".TXT" THEN ".txt" ELSE s

StartsWithHttp(v) == v.scheme \in {"http", "https"}

\* domain in parsed.netloc: substring test on the network location
Contains(netloc, piece) == \E i \in 1..Len(netloc) : netloc[i] = piece

is_youtube_url(url) ==
  \E domain \in {"youtube.com", "youtu.be"} : Contains(url.netloc, domain)

\* ------------------------------------------------------------ validators
Validators == {"TranscriptionInput", "SummarizeInput", "ExtractInput"}

\* TRUE when validate_input(v) returns a value, FALSE when it raises.
ValidatorAccepts(validator, v) ==
  CASE validator = "TranscriptionInput" ->
         (v.suffix \in SUPPORTED_AUDIO_FORMATS) \/ StartsWithHttp(v)
    [] validator \in {"SummarizeInput", "ExtractInput"} ->
         (Lower(v.suffix) \in SUPPORTED_AUDIO_FORMATS) \/ StartsWithHttp(v)
    [] OTHER -> FALSE

\* ---------------------------------------------------------- entry points
Apis == {"transcribe", "summarize", "extract", "process_audio_with_gemini"}

PipelineParams ==
  {"audio_file", "validate_input", "create_output", "model_prompt", "model_name", "progress_callback"}

\* The keyword arguments each entry point passes to process_audio_with_gemini.
CallKwargs(api) ==
  CASE api = "transcribe" ->
         PipelineParams \cup {"stream", "stream_callback", "safety_settings"}
    [] api = "summarize" ->
         PipelineParams \cup {"stream", "stream_callback", "safety_settings",
                              "response_schema", "response_mime_type"}
    [] api = "extract" ->
         PipelineParams \cup {"response_schema", "output_mime_type"}
    [] OTHER -> PipelineParams

ApiValidator(api) ==
  CASE api = "transcribe" -> "TranscriptionInput"
    [] api = "summarize" -> "SummarizeInput"
    [] OTHER -> "ExtractInput"

\* Python binds a call only when every keyword names a parameter.
BindsCall(api) == CallKwargs(api) \subseteq PipelineParams

\* The model names a caller passes
ModelNames == {"gemini-1.5-flash", "gemini-1.5-pro-latest"}

\* What the model answers to an extraction prompt: text that is no JSON,
\* JSON that the schema rejects, JSON that the schema accepts.
Responses == {"not_json", "invalid_json", "valid_json"}

\* The calls made: process_audio_with_gemini called directly, with or
\* without a progress callback, and the three entry points.  uploadRaises
\* is the disposition of the service for this call; response is the text
\* the model has for it.
DirectCalls ==
  { i \in [api : {"process_audio_with_gemini"}, audio_file : AudioFiles, cb : BOOLEAN,
           validator : {"TranscriptionInput"}, uploadRaises : BOOLEAN,
           raw_output : {TRUE}, model : {"gemini-1.5-flash"},
           structured_output : {FALSE}, response : {"not_json"}] :
      i.uploadRaises => i.audio_file.exists }

ApiCalls ==
  { i \in [api : {"transcribe", "summarize", "extract"}, audio_file : AudioFiles,
           cb : {FALSE}, validator : Validators, uploadRaises : BOOLEAN,
           raw_output : BOOLEAN, model : ModelNames, structured_output : BOOLEAN,
           response : Responses] :
      /\ i.audio_file.exists
      /\ i.validator = ApiValidator(i.api)
      /\ i.raw_output = (i.model = "gemini-1.5-pro-latest")
      /\ i.structured_output => i.api = "extract"
      /\ (i.response # "not_json") => i.structured_output }

Invocations == DirectCalls \cup ApiCalls

NoInvocation ==
  [api |-> "none", audio_file |-> TempFile, cb |-> FALSE,
   validator |-> "TranscriptionInput", uploadRaises |-> FALSE, raw_output |-> FALSE,
   model |-> "none", structured_output |-> FALSE, response |-> "not_json"]

\* ------------------------------------------------------- progress events
\* A progress value as an exact fraction in lowest terms.
RECURSIVE GCD(_, _)
GCD(a, b) == IF b = 0 THEN a ELSE GCD(b, a % b)

Frac(n, d) == LET g == GCD(n, d) IN [num |-> n \div g, den |-> d \div g]

Hundredths(n) == Frac(n, 100)

_INITIAL_PROGRESS == Hundredths(0)
_DOWNLOAD_PROGRESS_START == Hundredths(5)
_DOWNLOAD_PROGRESS_END == Hundredths(25)
_VALIDATION_PROGRESS == Hundredths(30)
_UPLOAD_PREP_PROGRESS == Hundredths(35)
_UPLOAD_PROGRESS_END == Hundredths(60)
_FILE_PROCESSING_END == Hundredths(75)
_MODEL_INVOKE_PROGRESS == Hundredths(80)
_RESPONSE_PROGRESS_Full == Hundredths(100)
_RESPONSE_PROGRESS == Hundredths(90)
_COMPLETE_PROGRESS == Hundredths(100)

One == Frac(1, 1)

LeQ(a, b) == a.num * b.den <= b.num * a.den

min(a, b) == IF LeQ(a, b) THEN a ELSE b

\* start + fraction * (end - start)
Interpolate(start, end, fraction) ==
  Frac(start.num * end.den * fraction.den
         + fraction.num * (end.num * start.den - start.num * end.den),
       start.den * end.den * fraction.den)

\* ProcessingProgress(stage=..., progress=..., phase=...)
ProcessingProgress(stage, progress, phase) ==
  [stage |-> stage, progress |-> progress, phase |-> phase]

\* Field(..., ge=0.0, le=1.0)
InRange(progress) == LeQ(_INITIAL_PROGRESS, progress) /\ LeQ(progress, One)

NoEvent == [stage |-> "none", progress |-> _INITIAL_PROGRESS, phase |-> "none"]

\* The dictionaries the download tool passes to progress_hook; 0 stands for
\* a key that is absent or None.
HookDicts ==
  { d \in [status : {"downloading", "finished"}, total_bytes : 0..MaxBytes,
           total_bytes_estimate : {0, MaxBytes}, downloaded_bytes : 0..MaxBytes] :
      (d.total_bytes # 0) => (d.total_bytes_estimate = 0) }

\* fraction as progress_hook computes it before the 'finished' override
HookFraction(d, total_bytes) ==
  IF total_bytes # 0
    THEN min(Frac(d.downloaded_bytes, total_bytes), One)
    ELSE IF d.downloaded_bytes # 0 /\ d.status = "finished" THEN One ELSE _INITIAL_PROGRESS

FinishedFraction_Computed(d, fraction) == fraction

\* if status == 'finished': fraction = 1.0
FinishedFraction(d, fraction) == IF d.status = "finished" THEN One ELSE fraction

\* The event progress_hook delivers for one dictionary.
progress_hook(d) ==
  LET total_bytes == IF d.total_bytes # 0 THEN d.total_bytes ELSE d.total_bytes_estimate
      fraction == FinishedFraction(d, HookFraction(d, total_bytes))
      progress_value ==
        Interpolate(_DOWNLOAD_PROGRESS_START, _DOWNLOAD_PROGRESS_END, fraction)
  IN ProcessingProgress(IF d.status # "finished" THEN "Downloading YouTube audio"
                                                 ELSE "Finished downloading YouTube audio",
                        min(progress_value, _DOWNLOAD_PROGRESS_END), "download")

UploadFraction_Unclamped(uploaded_bytes, file_size) == Frac(uploaded_bytes, file_size)

\* fraction = min(uploaded_bytes / file_size, 1.0)
UploadFraction(uploaded_bytes, file_size) == min(Frac(uploaded_bytes, file_size), One)

\* The event on_chunk delivers once uploaded_bytes of file_size have been read.
on_chunk(uploaded_bytes, file_size) ==
  ProcessingProgress("Uploading audio to Gemini",
                     Interpolate(_UPLOAD_PREP_PROGRESS, _UPLOAD_PROGRESS_END,
                                 UploadFraction(uploaded_bytes, file_size)),
                     "upload")

\* The chunk sizes the upload reads from the file, in order.
ChunkReads == {<<>>, <<1>>, <<1, MaxBytes>>}

RECURSIVE Sum(_)
Sum(q) == IF q = <<>> THEN 0 ELSE q[1] + Sum(Tail(q))

\* The events of an upload that reads the chunks of reads.
ChunkEvents(reads, file_size) ==
  [i \in 1..Len(reads) |-> on_chunk(Sum(SubSeq(reads, 1, i)), file_size)]

\* The event of a loop iteration of _wait_for_file_processing that begins
\* waited seconds after the start, with poll_interval 1.
WaitEvent(waited, timeout) ==
  LET elapsed_ratio == min(Frac(waited, IF timeout > 1 THEN timeout ELSE 1), One)
  IN ProcessingProgress("Processing uploaded audio on Gemini",
                        Interpolate(_UPLOAD_PROGRESS_END, _FILE_PROCESSING_END, elapsed_ratio),
                        "processing")

NoFile == [name |-> 0, state |-> "NONE"]

NoFault == [stage |-> "none", cause |-> "none", error |-> "none"]

Fault(stage, cause, error) == [stage |-> stage, cause |-> cause, error |-> error]

VARIABLES
  pc,              \* position of the running invocation, "idle" between invocations
  inv,             \* the arguments and environment of the running (or last) invocation
  invocations,     \* number of invocations made so far in this process
  model_name,      \* the model_name parameter of process_audio_with_gemini
  temp_file_path,  \* "None" or "tmp"
  tmpDisk,         \* what is at the temp file's path: "absent", "empty", "data"
  tmpVer,          \* mtime/size identity of the temp file's content
  localVer,        \* mtime/size identity of each existing local file
  attempts,        \* download attempts made in this invocation
  file,            \* the uploaded/cached file in hand, with its last reported state
  fromCache,       \* the file in hand came from the cache
  elapsed,         \* time since _wait_for_file_processing began
  output,          \* "None" or "out"
  raised,          \* exception raised inside the outer try block ("none" when none)
  reraised,        \* exception the outer handlers raise in its place
  removeFailed,    \* an os.remove of the temp file failed during this invocation
  fault,           \* the last failure of a stage: where, why, and the error it raised
  result,          \* how the last invocation ended: "none", "ok" or an error kind
  returned,        \* what the caller got back: "none", "output" (the object) or "text"
  cache,           \* _uploaded_file_cache: set of [key, name]
  uploadedFrom,    \* for each cache entry, the content its file was uploaded from
  cacheDrop,       \* why _get_cached_uploaded_file dropped the entry ("none" if it did not)
  modelBuilt,      \* the name GenerativeModel was called with ("none" before)
  nValidate, nUpload, nGenerate,
  stages,          \* stages run by this invocation, in order
  stored,          \* keys of the files that invocations before this one stored in the cache
  events,          \* the progress events the last step delivered, in order
  firstEvent,      \* the first event delivered in this invocation
  lastEvent,       \* the stage text of the latest event delivered in this invocation
  nComplete,       \* number of 'Processing complete' events delivered in this invocation
  mapping,         \* the mapping an ExtractionResult is built from
  built            \* the ExtractionResult built from it

\* the progress events as the caller's callback saw them
evVars == <<events, firstEvent, lastEvent, nComplete>>

\* the construction of an ExtractionResult
erVars == <<mapping, built>>

vars == <<pc, inv, invocations, model_name, temp_file_path, tmpDisk, tmpVer, localVer,
          attempts, file, fromCache, elapsed, output, raised, reraised, fault, result,
          returned, cache, uploadedFrom, cacheDrop, modelBuilt, nValidate, nUpload,
          nGenerate, stages, stored, removeFailed, evVars, erVars>>

LocalFiles == {a.text : a \in {x \in AudioFiles : x.exists}}

\* the local files that are rewritten between calls
Rewritten == {"a.mp3"}

NoMapping == [top |-> [k \in {} |-> 0], additional_data |-> [kind |-> "absent", items |-> [k \in {} |-> 0]]]

NoResult == [status |-> "none", fields |-> [k \in {} |-> 0], additional_data |-> [k \in {} |-> 0]]

\* The process before its first call.
Idle ==
  /\ pc = "idle"
  /\ inv = NoInvocation
  /\ invocations = 0
  /\ model_name = "none"
  /\ temp_file_path = "None"
  /\ tmpDisk = "absent"
  /\ tmpVer = 0
  /\ localVer = [p \in LocalFiles |-> 0]
  /\ attempts = 0
  /\ file = NoFile
  /\ fromCache = FALSE
  /\ elapsed = 0
  /\ output = "None"
  /\ raised = "none"
  /\ reraised = "none"
  /\ fault = NoFault
  /\ removeFailed = FALSE
  /\ result = "none"
  /\ returned = "none"
  /\ cache = {}
  /\ uploadedFrom = {}
  /\ cacheDrop = "none"
  /\ modelBuilt = "none"
  /\ nValidate = 0 /\ nUpload = 0 /\ nGenerate = 0
  /\ stages = <<>>
  /\ stored = {}
  /\ events = <<>>
  /\ firstEvent = NoEvent
  /\ lastEvent = "none"
  /\ nComplete = 0

Init ==
  /\ Idle
  /\ mapping = NoMapping
  /\ built = NoResult


\* ------------------------------------------------------------ control flow
\* Where a stage that completed hands control: the statement order of
\* process_audio_with_gemini and _prepare_uploaded_file.
NextStage_ValidateFirst(stage, yt) ==
  CASE stage = "start" -> "validate"
    [] stage = "validate" -> IF yt THEN "download" ELSE "prepare"
    [] stage = "download" -> "prepare"
    [] stage = "cache_miss" -> "upload"
    [] stage = "cache_hit" -> "wait"
    [] stage = "upload" -> "wait"
    [] stage = "wait" -> "generate"
    [] stage = "generate" -> "output"
    [] OTHER -> "finally"

NextStage_HitUploads(stage, yt) ==
  CASE stage = "start" -> IF yt THEN "download" ELSE "validate"
    [] stage = "download" -> "validate"
    [] stage = "validate" -> "prepare"
    [] stage = "cache_miss" -> "upload"
    [] stage = "cache_hit" -> "upload"
    [] stage = "upload" -> "wait"
    [] stage = "wait" -> "generate"
    [] stage = "generate" -> "output"
    [] OTHER -> "finally"

NextStage_SkipWait(stage, yt) ==
  CASE stage = "start" -> IF yt THEN "download" ELSE "validate"
    [] stage = "download" -> "validate"
    [] stage = "validate" -> "prepare"
    [] stage = "cache_miss" -> "upload"
    [] stage = "cache_hit" -> "generate"
    [] stage = "upload" -> "generate"
    [] stage = "wait" -> "generate"
    [] stage = "generate" -> "output"
    [] OTHER -> "finally"

NextStage(stage, yt) ==
  CASE stage = "start" -> IF yt THEN "download" ELSE "validate"
    [] stage = "download" -> "validate"
    [] stage = "validate" -> "prepare"
    [] stage = "cache_miss" -> "upload"
    [] stage = "cache_hit" -> "wait"
    [] stage = "upload" -> "wait"
    [] stage = "wait" -> "generate"
    [] stage = "generate" -> "output"
    [] OTHER -> "finally"

\* The retry policy: only stream_youtube_audio carries the @retry decorator,
\* and it retries on YouTubeDownloadError alone.
Retries_AnyStage(stage, e) == e \in {"YouTubeDownloadError", "Exception"}

Retries(stage, e) == stage = "download" /\ e = "YouTubeDownloadError"

\* except Exception in the model stage: everything becomes ModelInferenceError
InnerModelHandler_PassThrough(e) == e

InnerModelHandler(e) == "ModelInferenceError"

\* except MantisError: raise / except Exception: raise AudioProcessingError
OuterHandler_WrapAll(e) == "AudioProcessingError"

OuterHandler(e) == IF e \in MantisErrors THEN e ELSE "AudioProcessingError"

\* except Exception in stream_youtube_audio: whatever the download or the
\* two assertions on its result raise becomes YouTubeDownloadError
DownloadHandler_PassThrough(e) == e

DownloadHandler(e) == "YouTubeDownloadError"

IsYouTube_AnyUrl == StartsWithHttp(inv.audio_file)

\* if is_youtube_url(audio_file): the branch of the source resolver
IsYouTube == is_youtube_url(inv.audio_file)

\* file_to_process
FileToProcess == IF temp_file_path = "tmp" THEN TempFile ELSE inv.audio_file

\* os.stat(file_path): st_mtime_ns and st_size, as one identity
Stat(f) == IF f.text = TempFile.text THEN tmpVer ELSE localVer[f.text]

\* what is in the file now: its path and the identity of its content
Content(f) == <<f.text, Stat(f)>>

_get_file_cache_key_PathOnly(f) == <<f.text, 0>>

\* _get_file_cache_key: absolute path, st_mtime_ns and st_size
_get_file_cache_key(f) == <<f.text, Stat(f)>>

CacheKey == _get_file_cache_key(FileToProcess)

Cached(key) == {c \in cache : c.key = key}

\* The name the service gives the file of an upload: each upload gets a
\* name of its own, here the number of the invocation that made it.
NewName == invocations

\* whether a supplied progress callback returns (TRUE) or raises (FALSE)
CallbackReturns == IF inv.cb THEN BOOLEAN ELSE {TRUE}

\* ----------------------------------------------------------------- actions
\* A stage raises e into the outer try block.
Throw(stage, cause, e) ==
  /\ raised' = e
  /\ fault' = Fault(stage, cause, e)
  /\ pc' = "except"

\* A stage completes and control passes on.
Proceed(next) ==
  /\ pc' = next
  /\ UNCHANGED <<raised, fault>>

\* A stage failed with e: it is run again when the retry policy says so and
\* attempts remain, otherwise raised is raised into the outer try block.
FailOrRetry(stage, cause, e, made, toRaise) ==
  IF Retries(stage, e) /\ made < StopAfterAttempt
    THEN /\ pc' = stage
         /\ fault' = Fault(stage, cause, e)
         /\ raised' = raised
    ELSE Throw(stage, cause, toRaise)

\* The callback, when there is one, is called with each event of evs.
Deliver(evs) ==
  LET got == IF inv.cb THEN evs ELSE <<>> IN
  /\ events' = got
  /\ firstEvent' = IF firstEvent = NoEvent /\ got # <<>> THEN got[1] ELSE firstEvent
  /\ lastEvent' = IF got # <<>> THEN got[Len(got)].stage ELSE lastEvent
  /\ nComplete' = nComplete
       + Cardinality({i \in DOMAIN got : got[i].stage = "Processing complete"})

\* A call of transcribe / summarize / extract / process_audio_with_gemini:
\* the argument assertions and the binding of the call's keywords.
Invoke(i) ==
  /\ pc = "idle"
  /\ invocations < MaxInvocations
  /\ invocations' = invocations + 1
  /\ inv' = i
  /\ temp_file_path' = "None"
  /\ attempts' = 0
  /\ file' = NoFile
  /\ fromCache' = FALSE
  /\ elapsed' = 0
  /\ output' = "None"
  /\ raised' = "none"
  /\ reraised' = "none"
  /\ fault' = NoFault
  /\ removeFailed' = FALSE
  /\ returned' = "none"
  /\ cacheDrop' = "none"
  /\ modelBuilt' = "none"
  /\ nValidate' = 0 /\ nUpload' = 0 /\ nGenerate' = 0
  /\ stages' = <<>>
  /\ events' = <<>> /\ firstEvent' = NoEvent /\ lastEvent' = "none" /\ nComplete' = 0
  /\ IF i.audio_file.text = ""
       THEN pc' = "done" /\ result' = "AssertionError" /\ model_name' = "none"
       ELSE IF ~BindsCall(i.api)
         THEN pc' = "done" /\ result' = "TypeError" /\ model_name' = "none"
         ELSE pc' = "start" /\ result' = "none" /\ model_name' = i.model
  /\ UNCHANGED <<tmpDisk, tmpVer, localVer, cache, uploadedFrom, stored, erVars>>

\* The first progress event and the source resolver.
Start ==
  /\ pc = "start"
  /\ \E cbOk \in CallbackReturns, cbOk2 \in CallbackReturns :
       LET starting == ProcessingProgress("Starting processing", _INITIAL_PROGRESS,
                                          "initializing")
           loaded == ProcessingProgress("Loaded local audio file", _DOWNLOAD_PROGRESS_END,
                                        "initializing")
       IN
       IF ~cbOk
         THEN Throw("start", "callback", "Exception") /\ Deliver(<<starting>>)
         ELSE IF IsYouTube
           THEN Proceed(NextStage("start", TRUE)) /\ Deliver(<<starting>>)
           ELSE IF ~inv.audio_file.exists
             THEN Throw("start", "missing_file", "AssertionError") /\ Deliver(<<starting>>)
             ELSE /\ Deliver(<<starting, loaded>>)
                  /\ IF cbOk2
                       THEN Proceed(NextStage("start", FALSE))
                       ELSE Throw("start", "callback", "Exception")
  /\ UNCHANGED <<inv, invocations, model_name, temp_file_path, tmpDisk, tmpVer, localVer,
                 attempts, file, fromCache, elapsed, output, reraised, result, returned,
                 cache, uploadedFrom, cacheDrop, modelBuilt, nValidate, nUpload,
                 nGenerate, stages, stored, removeFailed, erVars>>

\* The calls the download tool makes to progress_hook during one download.
HookCalls == {<<>>} \cup {<<d>> : d \in HookDicts}

\* One attempt of stream_youtube_audio under the retry wrapper: removal of a
\* file left at the temp path, the first download event, the download
\* itself with its calls of progress_hook, the two assertions on the
\* result, and the retry decision.
DownloadAttempt ==
  /\ pc = "download"
  /\ attempts' = attempts + 1
  /\ stages' = Append(stages, "download")
  /\ \E removed \in BOOLEAN, cbOk \in CallbackReturns,
        ydl \in {"raises", "missing", "empty", "data"}, hooks \in HookCalls :
       LET afterRemove == IF removed THEN "absent" ELSE tmpDisk
           preparing == ProcessingProgress("Preparing YouTube download",
                                           _DOWNLOAD_PROGRESS_START, "download")
           hooked == [i \in 1..Len(hooks) |-> progress_hook(hooks[i])]
       IN
       /\ (tmpDisk = "absent") => removed
       /\ (~inv.cb \/ ~cbOk \/ ydl \in {"raises", "missing"}) => hooks = <<>>
       /\ removeFailed' = (removeFailed \/ ~removed)
       /\ (ydl = "missing") => afterRemove = "absent"
       /\ Deliver(<<preparing>> \o hooked)
       /\ IF ~cbOk
            THEN /\ tmpDisk' = afterRemove
                 /\ Throw("download", "callback", "Exception")
                 /\ UNCHANGED <<temp_file_path, tmpVer>>
            ELSE IF ydl = "data"
              THEN /\ tmpDisk' = "data"
                   /\ tmpVer' = IF removed THEN tmpVer + 1 ELSE tmpVer
                   /\ temp_file_path' = "tmp"
                   /\ Proceed(NextStage("download", TRUE))
              ELSE /\ tmpDisk' = (IF ydl = "empty" THEN "empty" ELSE afterRemove)
                   /\ UNCHANGED <<temp_file_path, tmpVer>>
                   /\ LET e == DownloadHandler(IF ydl = "raises" THEN "Exception"
                                                                   ELSE "AssertionError")
                      IN FailOrRetry("download", ydl, e, attempts + 1, e)
  /\ UNCHANGED <<inv, invocations, model_name, localVer, file, fromCache, elapsed, output,
                 reraised, result, returned, cache, uploadedFrom, cacheDrop, modelBuilt,
                 nValidate, nUpload, nGenerate, stored, erVars>>

\* validate_input(file_to_process) inside its try block.
Validate ==
  /\ pc = "validate"
  /\ nValidate' = nValidate + 1
  /\ stages' = Append(stages, "validate")
  /\ \E cbOk \in CallbackReturns :
       IF ValidatorAccepts(inv.validator, FileToProcess)
         THEN /\ Deliver(<<ProcessingProgress("Validated audio input",
                                              _VALIDATION_PROGRESS, "initializing")>>)
              /\ IF cbOk
                   THEN Proceed(NextStage("validate", IsYouTube))
                   ELSE Throw("validate", "callback", "ValidationError")
         ELSE /\ Deliver(<<>>)
              /\ FailOrRetry("validate", "rejected", "Exception",
                             nValidate + 1, "ValidationError")
  /\ UNCHANGED <<inv, invocations, model_name, temp_file_path, tmpDisk, tmpVer, localVer,
                 attempts, file, fromCache, elapsed, output, reraised, result, returned,
                 cache, uploadedFrom, cacheDrop, modelBuilt, nUpload, nGenerate, stored,
                 removeFailed, erVars>>

\* _uploaded_file_cache.pop(cache_key, None)
Popped_Kept(key) == cache

Popped(key) == cache \ Cached(key)

\* _prepare_uploaded_file up to its branch: the cache key, the cache lookup
\* and, on a hit, _get_cached_uploaded_file's fetch of the stored file.
Prepare ==
  /\ pc = "prepare"
  /\ IF Cached(CacheKey) = {}
       THEN /\ Proceed(NextStage("cache_miss", IsYouTube))
            /\ Deliver(<<>>)
            /\ UNCHANGED <<file, fromCache, cache, uploadedFrom, cacheDrop, elapsed>>
       ELSE \E c \in Cached(CacheKey), got \in {"raises", "PROCESSING", "ACTIVE", "FAILED"},
               cbOk \in CallbackReturns :
              IF got \in {"raises", "FAILED"}
                THEN /\ cache' = Popped(CacheKey)
                     /\ uploadedFrom' = {u \in uploadedFrom : u.name # c.name}
                     /\ cacheDrop' = got
                     /\ Proceed(NextStage("cache_miss", IsYouTube))
                     /\ Deliver(<<>>)
                     /\ UNCHANGED <<file, fromCache, elapsed>>
                ELSE /\ file' = [name |-> c.name, state |-> got]
                     /\ fromCache' = TRUE
                     /\ elapsed' = 0
                     /\ UNCHANGED <<cache, uploadedFrom, cacheDrop>>
                     /\ Deliver(<<ProcessingProgress("Reusing cached Gemini upload",
                                                     _UPLOAD_PROGRESS_END, "upload")>>)
                     /\ IF cbOk
                          THEN Proceed(NextStage("cache_hit", IsYouTube))
                          ELSE Throw("prepare", "callback", "Exception")
  /\ UNCHANGED <<inv, invocations, model_name, temp_file_path, tmpDisk, tmpVer, localVer,
                 attempts, output, reraised, result, returned, modelBuilt, nValidate,
                 nUpload, nGenerate, stages, stored, removeFailed, erVars>>

\* _upload_file_with_progress up to its call of _wait_for_file_processing:
\* the size of the file, the first upload event, the upload call with the
\* chunks it reads, and the event after it.
Upload ==
  /\ pc = "upload"
  /\ stages' = Append(stages, "upload")
  /\ \E cbPrep \in CallbackReturns, cbDone \in CallbackReturns,
        st \in {"PROCESSING", "ACTIVE", "FAILED"},
        file_size \in 0..MaxBytes, reads \in ChunkReads :
       LET preparing == ProcessingProgress("Preparing audio upload",
                                           _UPLOAD_PREP_PROGRESS, "upload")
           complete == ProcessingProgress("Upload complete", _UPLOAD_PROGRESS_END, "upload")
           chunks == ChunkEvents(reads, file_size)
       IN
       /\ (temp_file_path = "tmp") => file_size > 0
       /\ (~inv.cb \/ ~cbPrep \/ file_size = 0) => reads = <<>>
       /\ (inv.cb /\ cbPrep /\ file_size > 0 /\ ~inv.uploadRaises) => reads # <<>>
       /\ IF ~cbPrep
            THEN /\ Throw("upload", "callback", "Exception")
                 /\ Deliver(<<preparing>>)
                 /\ UNCHANGED <<file, elapsed, nUpload>>
            ELSE /\ nUpload' = nUpload + 1
                 /\ IF inv.uploadRaises
                      THEN /\ UNCHANGED <<file, elapsed>>
                           /\ Deliver(<<preparing>> \o chunks)
                           /\ FailOrRetry("upload", "upload_file", "Exception",
                                          nUpload + 1, "Exception")
                      ELSE /\ file' = [name |-> NewName, state |-> st]
                           /\ elapsed' = 0
                           /\ Deliver(<<preparing>> \o chunks \o <<complete>>)
                           /\ IF cbDone
                                THEN Proceed(NextStage("upload", IsYouTube))
                                ELSE Throw("upload", "callback", "Exception")
  /\ UNCHANGED <<inv, invocations, model_name, temp_file_path, tmpDisk, tmpVer, localVer,
                 attempts, fromCache, output, reraised, result, returned, cache,
                 uploadedFrom, cacheDrop, modelBuilt, nValidate, nGenerate, stored,
                 removeFailed, erVars>>

\* if time.time() - start_time > timeout, tested after every poll
TimedOut_Never(t, timeout) == FALSE

TimedOut(t, timeout) == t > timeout

\* One iteration of the while loop of _wait_for_file_processing: the
\* progress event, the sleep, the status poll and the timeout test.  The
\* iteration takes the poll interval, or so long that the timeout is past.
Poll ==
  /\ pc = "wait"
  /\ file.state = "PROCESSING"
  /\ \E cbOk \in CallbackReturns, got \in {"raises", "PROCESSING", "ACTIVE", "FAILED"},
        t \in {elapsed + 1, PollTimeout + 1}, waited \in {elapsed, elapsed + 1} :
       /\ (~inv.cb) => waited = elapsed
       /\ Deliver(<<WaitEvent(waited, PollTimeout)>>)
       /\ IF ~cbOk
            THEN /\ Throw("wait", "callback", "Exception")
                 /\ UNCHANGED <<file, elapsed>>
            ELSE /\ elapsed' = t
                 /\ IF got = "raises"
                      THEN /\ Throw("wait", "poll", "AudioProcessingError")
                           /\ file' = file
                      ELSE /\ file' = [file EXCEPT !.state = got]
                           /\ IF TimedOut(t, PollTimeout)
                                THEN Throw("wait", "timeout", "AudioProcessingError")
                                ELSE Proceed("wait")
  /\ UNCHANGED <<inv, invocations, model_name, temp_file_path, tmpDisk, tmpVer, localVer,
                 attempts, fromCache, output, reraised, result, returned, cache,
                 uploadedFrom, cacheDrop, modelBuilt, nValidate, nUpload, nGenerate,
                 stages, stored, removeFailed, erVars>>

Stored_NotKept(key, f) == {c \in cache : c.key # key}

\* _store_uploaded_file: one entry per key
Stored(key, f) == {c \in cache : c.key # key} \cup {[key |-> key, name |-> f.name]}

\* if file.state == FAILED: raise AudioProcessingError, after the loop
WaitOutcome_IgnoreFailed(state) == "return"

WaitOutcome(state) == IF state = "FAILED" THEN "raise" ELSE "return"

\* The end of _wait_for_file_processing once the file is no longer
\* PROCESSING, and for a fresh upload the store into the cache.
WaitReturn ==
  /\ pc = "wait"
  /\ file.state # "PROCESSING"
  /\ \E cbOk \in CallbackReturns :
       IF WaitOutcome(file.state) = "raise"
         THEN /\ Throw("wait", "failed", "AudioProcessingError")
              /\ Deliver(<<>>)
              /\ UNCHANGED <<cache, uploadedFrom>>
         ELSE /\ Deliver(<<ProcessingProgress("Gemini finished preparing the upload",
                                              _FILE_PROCESSING_END, "processing")>>)
              /\ IF ~cbOk
                   THEN /\ Throw("wait", "callback", "Exception")
                        /\ UNCHANGED <<cache, uploadedFrom>>
                   ELSE /\ Proceed(NextStage("wait", IsYouTube))
                        /\ IF fromCache
                             THEN UNCHANGED <<cache, uploadedFrom>>
                             ELSE /\ cache' = Stored(CacheKey, file)
                                  /\ uploadedFrom' =
                                       {u \in uploadedFrom :
                                          \E c \in cache : c.key # CacheKey /\ c.name = u.name}
                                       \cup {[name |-> file.name,
                                              content |-> Content(FileToProcess)]}
  /\ UNCHANGED <<inv, invocations, model_name, temp_file_path, tmpDisk, tmpVer, localVer,
                 attempts, file, fromCache, elapsed, output, reraised, result, returned,
                 cacheDrop, modelBuilt, nValidate, nUpload, nGenerate, stages, stored,
                 removeFailed, erVars>>

\* The model stage up to the response checks: GenerativeModel(model_name),
\* the submit event, generate_content, the three assertions on the
\* response and the response event.
Generate ==
  /\ pc = "generate"
  /\ stages' = Append(stages, "generate")
  /\ modelBuilt' = model_name
  /\ \E made \in {"constructor_raises", "callback", "call"},
        resp \in {"raises", "None", "no_text", "empty_text", "text"},
        cbOk \in CallbackReturns :
       LET submitting == ProcessingProgress("Submitting audio to Gemini model",
                                            _MODEL_INVOKE_PROGRESS, "processing")
           received == ProcessingProgress("Received response from Gemini",
                                          _RESPONSE_PROGRESS, "response")
       IN
       /\ (made = "callback") => inv.cb
       /\ IF made # "call"
            THEN /\ nGenerate' = nGenerate
                 /\ Deliver(IF made = "callback" THEN <<submitting>> ELSE <<>>)
                 /\ Throw("generate", made, InnerModelHandler("Exception"))
            ELSE /\ nGenerate' = nGenerate + 1
                 /\ IF resp = "text"
                      THEN /\ Deliver(<<submitting, received>>)
                           /\ IF cbOk
                                THEN Proceed(NextStage("generate", IsYouTube))
                                ELSE Throw("generate", "callback",
                                           InnerModelHandler("Exception"))
                      ELSE /\ Deliver(<<submitting>>)
                           /\ FailOrRetry("generate", resp, "Exception", nGenerate + 1,
                                          InnerModelHandler(IF resp = "raises"
                                                              THEN "Exception"
                                                              ELSE "AssertionError"))
  /\ UNCHANGED <<inv, invocations, model_name, temp_file_path, tmpDisk, tmpVer, localVer,
                 attempts, file, fromCache, elapsed, output, reraised, result, returned,
                 cache, uploadedFrom, cacheDrop, nValidate, nUpload, stored,
                 removeFailed, erVars>>

\* create_output(response.text), the assertion on it, the completion event
\* and the return statement.
Output ==
  /\ pc = "output"
  /\ stages' = Append(stages, "output")
  /\ \E created \in {"raises", "None", "out"}, cbOk \in CallbackReturns :
       IF created # "out"
         THEN /\ output' = "None"
              /\ Deliver(<<>>)
              /\ Throw("output", created,
                       InnerModelHandler(IF created = "None" THEN "AssertionError"
                                                             ELSE "Exception"))
         ELSE /\ output' = "out"
              /\ Deliver(<<ProcessingProgress("Processing complete", _COMPLETE_PROGRESS,
                                              "complete")>>)
              /\ IF cbOk
                   THEN Proceed(NextStage("output", IsYouTube))
                   ELSE Throw("output", "callback", InnerModelHandler("Exception"))
  /\ UNCHANGED <<inv, invocations, model_name, temp_file_path, tmpDisk, tmpVer, localVer,
                 attempts, file, fromCache, elapsed, reraised, result, returned, cache,
                 uploadedFrom, cacheDrop, modelBuilt, nValidate, nUpload, nGenerate,
                 stored, removeFailed, erVars>>

\* The handlers of the outer try block.
Except ==
  /\ pc = "except"
  /\ reraised' = OuterHandler(raised)
  /\ pc' = "finally"
  /\ events' = <<>>
  /\ UNCHANGED <<inv, invocations, model_name, temp_file_path, tmpDisk, tmpVer, localVer,
                 attempts, file, fromCache, elapsed, output, raised, fault, result,
                 returned, cache, uploadedFrom, cacheDrop, modelBuilt, nValidate, nUpload,
                 nGenerate, stages, stored, removeFailed, firstEvent, lastEvent,
                 nComplete, erVars>>

\* What the caller of i gets once the pipeline has returned its output
\* object: process_audio_with_gemini hands the object itself; transcribe and
\* summarize hand the object (raw_output) or its text field; extract reads
\* response_text, a name that is not bound.
AfterPipeline(i) ==
  CASE i.api = "process_audio_with_gemini" -> "output"
    [] i.api = "extract" -> "NameError"
    [] i.raw_output -> "output"
    [] OTHER -> "text"

\* The finally block: removal of the temp file (which may fail: a
\* PermissionError on each of the three tries, or another error), then
\* the return of the output when there is one; and what the entry point
\* makes of the output.
Finally ==
  /\ pc = "finally"
  /\ stages' = Append(stages, "cleanup")
  /\ IF temp_file_path # "None" /\ tmpDisk # "absent"
       THEN \E removed \in BOOLEAN :
              /\ tmpDisk' = IF removed THEN "absent" ELSE tmpDisk
              /\ removeFailed' = (removeFailed \/ ~removed)
       ELSE UNCHANGED <<tmpDisk, removeFailed>>
  /\ IF output = "None"
       THEN result' = reraised /\ returned' = "none"
       ELSE IF AfterPipeline(inv) = "NameError"
         THEN result' = "NameError" /\ returned' = "none"
         ELSE result' = "ok" /\ returned' = AfterPipeline(inv)
  /\ pc' = "done"
  /\ events' = <<>>
  /\ UNCHANGED <<inv, invocations, model_name, temp_file_path, tmpVer, localVer, attempts,
                 file, fromCache, elapsed, output, raised, reraised, fault, cache,
                 uploadedFrom, cacheDrop, modelBuilt, nValidate, nUpload, nGenerate,
                 stored, firstEvent, lastEvent, nComplete, erVars>>

\* The caller has the result; the process is ready for the next call.
Return ==
  /\ pc = "done"
  /\ pc' = "idle"
  /\ inv' = NoInvocation
  /\ model_name' = "none"
  /\ temp_file_path' = "None"
  /\ attempts' = 0
  /\ file' = NoFile
  /\ fromCache' = FALSE
  /\ elapsed' = 0
  /\ output' = "None"
  /\ raised' = "none"
  /\ reraised' = "none"
  /\ fault' = NoFault
  /\ removeFailed' = FALSE
  /\ result' = "none"
  /\ returned' = "none"
  /\ cacheDrop' = "none"
  /\ modelBuilt' = "none"
  /\ nValidate' = 0 /\ nUpload' = 0 /\ nGenerate' = 0
  /\ stages' = <<>>
  /\ stored' = stored \cup {c.key : c \in cache}
  /\ events' = <<>> /\ firstEvent' = NoEvent /\ lastEvent' = "none" /\ nComplete' = 0
  /\ UNCHANGED <<invocations, tmpDisk, tmpVer, localVer, cache, uploadedFrom, erVars>>

\* Between calls a local file is rewritten: its mtime and size change.
Touch(p) ==
  /\ pc = "idle"
  /\ localVer[p] < MaxTouch
  /\ localVer' = [localVer EXCEPT ![p] = @ + 1]
  /\ UNCHANGED <<pc, inv, invocations, model_name, temp_file_path, tmpDisk, tmpVer,
                 attempts, file, fromCache, elapsed, output, raised, reraised, fault,
                 result, returned, cache, uploadedFrom, cacheDrop, modelBuilt, nValidate,
                 nUpload, nGenerate, stages, stored, removeFailed, evVars, erVars>>

Next ==
  \/ \E i \in Invocations : Invoke(i)
  \/ Start
  \/ DownloadAttempt
  \/ Validate
  \/ Prepare
  \/ Upload
  \/ Poll
  \/ WaitReturn
  \/ Generate
  \/ Output
  \/ Except
  \/ Finally
  \/ Return
  \/ \E p \in Rewritten : Touch(p)

Spec == Init /\ [][Next]_vars

\* ------------------------------------------------------ ExtractionResult
\* The fields ExtractionResult declares (cls.model_fields).
model_fields ==
  {"key_points", "entities", "summary", "raw_text", "action_items", "additional_data"}

\* The keys of the mappings: two declared fields and two keys that are not.
TopKeys == {"summary", "key_points", "extra", "speaker"}

Values == {1, 2}

Dicts(keys) == UNION {[D -> Values] : D \in SUBSET keys}

\* The value under the key additional_data: absent, a dict, or no dict.
AdditionalDatas ==
  {[kind |-> "absent", items |-> [k \in {} |-> 0]],
   [kind |-> "other", items |-> [k \in {} |-> 0]]}
    \cup {[kind |-> "dict", items |-> d] : d \in Dicts({"extra", "other"})}

Mappings == [top : Dicts(TopKeys), additional_data : AdditionalDatas]

\* extras.update(existing): the entries of existing replace those of extras
Update(extras, existing) ==
  [k \in DOMAIN extras \cup DOMAIN existing |->
     IF k \in DOMAIN existing THEN existing[k] ELSE extras[k]]

\* ExtractionResult.collect_additional_data, the validator that runs on the
\* mapping before the fields are set.
collect_additional_data(value) ==
  LET extras == [k \in DOMAIN value.top \ model_fields |-> value.top[k]]
      existing == value.additional_data
  IN IF DOMAIN extras = {}
       THEN value
       ELSE [top |-> [k \in DOMAIN value.top \cap model_fields |-> value.top[k]],
             additional_data |->
               [kind |-> "dict",
                items |-> IF existing.kind = "dict" THEN Update(extras, existing.items)
                                                   ELSE extras]]

\* ExtractionResult.model_validate(value): the validator, then the fields;
\* 0 stands for None; an additional_data that is no dict is rejected.
model_validate(value) ==
  LET v == collect_additional_data(value) IN
  IF v.additional_data.kind = "other"
    THEN [status |-> "ValidationError", fields |-> [k \in {} |-> 0],
          additional_data |-> [k \in {} |-> 0]]
    ELSE [status |-> "built",
          fields |-> [k \in model_fields \ {"additional_data"} |->
                        IF k \in DOMAIN v.top THEN v.top[k] ELSE 0],
          additional_data |-> v.additional_data.items]

InitExtractionResult ==
  /\ Idle
  /\ mapping \in Mappings
  /\ built = NoResult

BuildExtractionResult ==
  /\ built = NoResult
  /\ built' = model_validate(mapping)
  /\ UNCHANGED <<pc, inv, invocations, model_name, temp_file_path, tmpDisk, tmpVer,
                 localVer, attempts, file, fromCache, elapsed, output, raised, reraised,
                 fault, result, returned, cache, uploadedFrom, cacheDrop, modelBuilt,
                 nValidate, nUpload, nGenerate, stages, stored, removeFailed, evVars,
                 mapping>>

NextExtractionResult == BuildExtractionResult

SpecExtractionResult == InitExtractionResult /\ [][NextExtractionResult]_vars


\* ------------------------------------------------ _wait_for_file_processing
\* The calls of _wait_for_file_processing: process_audio_with_gemini on
\* a.mp3, with and without a callback.
WaitCalls ==
  {i \in DirectCalls : i.audio_file.text = "a.mp3" /\ ~i.uploadRaises}

\* The states a file is in when _wait_for_file_processing is entered: any
\* after an upload, any but FAILED for a file the cache lookup returned.
EntryStates(cached) ==
  IF cached THEN {"PROCESSING", "ACTIVE"} ELSE {"PROCESSING", "ACTIVE", "FAILED"}

\* The process at the entry of _wait_for_file_processing in call i: with the
\* file the first invocation has just uploaded, or (cached) in the second
\* invocation with the file of the first one's upload.
WaitEntry(i, cached, st) ==
  LET key == <<i.audio_file.text, 0>>
      starting == ProcessingProgress("Starting processing", _INITIAL_PROGRESS,
                                     "initializing")
      preparing == ProcessingProgress("Preparing audio upload", _UPLOAD_PREP_PROGRESS,
                                      "upload")
      complete == ProcessingProgress("Upload complete", _UPLOAD_PROGRESS_END, "upload")
      reusing == ProcessingProgress("Reusing cached Gemini upload", _UPLOAD_PROGRESS_END,
                                    "upload")
  IN
  /\ pc = "wait"
  /\ inv = i
  /\ invocations = (IF cached THEN 2 ELSE 1)
  /\ model_name = i.model
  /\ temp_file_path = "None"
  /\ tmpDisk = "absent"
  /\ tmpVer = 0
  /\ localVer = [p \in LocalFiles |-> 0]
  /\ attempts = 0
  /\ file = [name |-> 1, state |-> st]
  /\ fromCache = cached
  /\ elapsed = 0
  /\ output = "None"
  /\ raised = "none"
  /\ reraised = "none"
  /\ fault = NoFault
  /\ removeFailed = FALSE
  /\ result = "none"
  /\ returned = "none"
  /\ cache = (IF cached THEN {[key |-> key, name |-> 1]} ELSE {})
  /\ uploadedFrom = (IF cached THEN {[name |-> 1, content |-> key]} ELSE {})
  /\ cacheDrop = "none"
  /\ modelBuilt = "none"
  /\ nValidate = 1 /\ nUpload = (IF cached THEN 0 ELSE 1) /\ nGenerate = 0
  /\ stages = (IF cached THEN <<"validate">> ELSE <<"validate", "upload">>)
  /\ stored = (IF cached THEN {key} ELSE {})
  /\ events = (IF ~i.cb THEN <<>>
                ELSE IF cached THEN <<reusing>> ELSE <<preparing, complete>>)
  /\ firstEvent = (IF i.cb THEN starting ELSE NoEvent)
  /\ lastEvent = (IF ~i.cb THEN "none"
                   ELSE IF cached THEN "Reusing cached Gemini upload"
                   ELSE "Upload complete")
  /\ nComplete = 0
  /\ mapping = NoMapping
  /\ built = NoResult

InitWait ==
  \E i \in WaitCalls, cached \in BOOLEAN :
    \E st \in EntryStates(cached) : WaitEntry(i, cached, st)

NextWait == Poll \/ WaitReturn

\* Every status poll returns and the function runs on: its next step is
\* taken whenever there is one.
SpecWait == InitWait /\ [][NextWait]_vars /\ WF_vars(Poll) /\ WF_vars(WaitReturn)


\* ------------------------------------------------------------------ claims
Range(q) == {q[i] : i \in DOMAIN q}

PublicApis == {"transcribe", "summarize", "extract"}

\* The invocation has ended and its finally block has run.
Exited == pc = "done" /\ stages # <<>>

\* C1: after an invocation on a remote video URL has exited, by a return or
\* by an error of any stage, nothing is left at the temp file's path
\* (stated for the runs in which the download was started and every
\* os.remove call succeeded).
C1_NoTempFileRemains ==
  (Exited /\ IsYouTube /\ attempts > 0 /\ ~removeFailed) => tmpDisk = "absent"

\* C2: the download is attempted at most 3 times; a further attempt is made
\* only after an attempt that ended in YouTubeDownloadError; no attempt
\* follows a successful one; after a third failed attempt the
\* YouTubeDownloadError is raised and reaches the caller.
C2_DownloadRetry ==
  /\ attempts <= 3
  /\ (pc = "download" /\ attempts > 0) =>
       (fault.stage = "download" /\ fault.error = "YouTubeDownloadError"
          /\ temp_file_path = "None")
  /\ (temp_file_path = "tmp") => pc # "download"
  /\ (attempts = 3 /\ temp_file_path = "None" /\ fault.stage = "download"
        /\ fault.cause # "callback") =>
       /\ pc \in {"except", "finally", "done"}
       /\ raised = "YouTubeDownloadError"
       /\ (pc = "done" => result = "YouTubeDownloadError")

C2_Witness ==
  pc = "done" /\ attempts = 3 /\ fault.stage = "download" /\ fault.cause = "empty"
    /\ result = "YouTubeDownloadError"

\* C3: whenever transcribe, summarize or extract, called with a non-empty
\* audio_file, ends in an error, the error is a MantisError.
C3_OnlyMantisErrorsEscape ==
  (pc = "done" /\ inv.api \in PublicApis /\ inv.audio_file.text # "" /\ result # "ok")
    => result \in MantisErrors

\* C4 as stated: validation, then download, then upload, then generation,
\* then output, then cleanup.
RankAsStated(stage) ==
  CASE stage = "validate" -> 1
    [] stage = "download" -> 2
    [] stage = "upload" -> 3
    [] stage = "generate" -> 4
    [] stage = "output" -> 5
    [] OTHER -> 6

C4_OrderAsStated ==
  \A i, j \in DOMAIN stages : i < j => RankAsStated(stages[i]) <= RankAsStated(stages[j])

Rank(stage) ==
  CASE stage = "download" -> 1
    [] stage = "validate" -> 2
    [] stage = "upload" -> 3
    [] stage = "generate" -> 4
    [] stage = "output" -> 5
    [] OTHER -> 6

\* C4: the stages of an invocation run in the order download (only for a
\* remote URL, repeated only by the retries), input validation, upload,
\* model generation, output creation, cleanup; no stage runs after cleanup.
C4_StageOrder ==
  /\ \A i, j \in DOMAIN stages :
       i < j => \/ Rank(stages[i]) < Rank(stages[j])
                \/ (stages[i] = "download" /\ stages[j] = "download")
  /\ ("download" \in Range(stages)) => IsYouTube
  /\ Exited => stages[Len(stages)] = "cleanup"

C4_Witness ==
  /\ pc = "done" /\ result = "ok" /\ IsYouTube
  /\ stages = <<"download", "download", "validate", "upload", "generate", "output", "cleanup">>

\* C5 as stated: an invocation makes no upload call for a file (same path,
\* mtime and size) whose upload an earlier invocation of this process stored.
C5_UploadedOnlyOnce ==
  (nUpload > 0) => CacheKey \notin stored

\* C5: an invocation that finds the cache entry of the unchanged file, and
\* to which the service returns that file in a state other than FAILED,
\* makes no upload call and works on the file an earlier upload produced.
C5_CacheHitNoUpload ==
  fromCache =>
    /\ nUpload = 0
    /\ CacheKey \in stored
    /\ file.name < invocations
    /\ [key |-> CacheKey, name |-> file.name] \in cache

C5_Witness ==
  pc = "done" /\ fromCache /\ result = "ok" /\ nGenerate = 1

\* C6: transcribe on an input that is no URL and has no supported audio
\* extension ends in ValidationError.
C6_UnsupportedExtensionRejected ==
  (pc = "done" /\ inv.api = "transcribe" /\ inv.audio_file.text # ""
     /\ ~StartsWithHttp(inv.audio_file) /\ ~is_youtube_url(inv.audio_file)
     /\ inv.audio_file.suffix \notin SUPPORTED_AUDIO_FORMATS)
    => result = "ValidationError"

\* C7: transcribe, summarize and extract, called on an existing audio file
\* that is not in the cache while the upload call raises, end in
\* AudioProcessingError without a model call.
C7_UploadFailureIsAudioProcessingError ==
  (pc = "done" /\ inv.api \in PublicApis /\ inv.uploadRaises
     /\ inv.audio_file.exists /\ inv.audio_file.suffix \in SUPPORTED_AUDIO_FORMATS
     /\ Cached(_get_file_cache_key(inv.audio_file)) = {})
    => (result = "AudioProcessingError" /\ nGenerate = 0)

ModelFaults == {"raises", "None", "no_text", "empty_text"}

\* C8: when generate_content raises, returns None, returns a response
\* without text or with empty text, or create_output raises or returns
\* None, the invocation ends in ModelInferenceError.
C8_ModelFaultIsModelInferenceError ==
  (fault.stage \in {"generate", "output"} /\ fault.cause \in ModelFaults) =>
    /\ raised = "ModelInferenceError"
    /\ output = "None"
    /\ pc \in {"except", "finally", "done"}
    /\ (pc = "done" => result = "ModelInferenceError")

C8_Witness ==
  pc = "done" /\ fault.stage = "output" /\ fault.cause = "None"
    /\ result = "ModelInferenceError"

\* C9: a MantisError raised into the outer try block leaves the handlers
\* with its kind unchanged, a YouTubeDownloadError of the download reaches
\* the caller as YouTubeDownloadError, and the caller never gets an
\* AudioProcessingError in place of another MantisError.
C9_MantisErrorKeepsKind ==
  /\ (pc \in {"finally", "done"} /\ raised \in MantisErrors) => reraised = raised
  /\ (pc = "done" /\ raised = "YouTubeDownloadError") => result = "YouTubeDownloadError"
  /\ (pc = "done" /\ raised \in MantisErrors \ {"AudioProcessingError"})
       => result # "AudioProcessingError"

C9_Witness ==
  pc = "done" /\ raised = "ValidationError" /\ result = "ValidationError"

\* C10: validate_input, upload_file and generate_content are each called at
\* most once per invocation, and once one of them has failed the
\* invocation runs no further stage and ends in an error.
C10_NoSecondAttempt ==
  /\ nValidate <= 1 /\ nUpload <= 1 /\ nGenerate <= 1
  /\ (fault.stage \in {"validate", "upload", "generate"}) =>
       /\ pc \in {"except", "finally", "done"}
       /\ raised # "none"
       /\ (pc = "done" => result \in MantisErrors)

C10_Witness ==
  /\ pc = "done" /\ fault.stage = "upload" /\ fault.cause = "upload_file"
  /\ nUpload = 1 /\ nGenerate = 0 /\ result = "AudioProcessingError"

\* C11: a download is attempted, and a temp file path is held, only for an
\* input whose network location contains youtube.com or youtu.be; such an
\* input reaches no later stage without a download attempt; an invocation
\* on any other input makes no download attempt, holds no temp file path,
\* calls no os.remove, and leaves what is at the temp file's path as it is.
C11_DownloadIffRemoteVideoUrl ==
  /\ [](/\ (attempts > 0 \/ temp_file_path # "None") => is_youtube_url(inv.audio_file)
        /\ (is_youtube_url(inv.audio_file)
              /\ pc \in {"validate", "prepare", "upload", "wait", "generate", "output"})
             => attempts > 0
        /\ (pc # "idle" /\ ~is_youtube_url(inv.audio_file))
             => (attempts = 0 /\ temp_file_path = "None" /\ ~removeFailed
                   /\ "download" \notin Range(stages)))
  /\ [][(pc # "idle" /\ ~is_youtube_url(inv.audio_file))
          => (tmpDisk' = tmpDisk /\ tmpVer' = tmpVer)]_vars

C11_Witness ==
  /\ pc = "done" /\ inv.audio_file.scheme = "http" /\ ~is_youtube_url(inv.audio_file)
  /\ attempts = 0 /\ fault.cause = "missing_file" /\ tmpDisk = "empty"

C13_ProgressInRange ==
  /\ \A i \in DOMAIN events : InRange(events[i].progress)
  /\ InRange(firstEvent.progress)

\* an upload of a 2-byte file that read 1 byte and then 2 more
C13_Witness ==
  /\ Len(events) = 4
  /\ events[2].stage = "Uploading audio to Gemini" /\ events[2].progress = Frac(19, 40)
  /\ events[3].stage = "Uploading audio to Gemini"
  /\ events[3].progress = _UPLOAD_PROGRESS_END
  /\ events[4].stage = "Upload complete"

\* C14: every event of the download phase has a progress value between 0.05
\* and 0.25; each call of progress_hook yields one such event after the
\* 'Preparing YouTube download' event; the event of a call with status
\* 'finished' is at 0.25.
C14_DownloadEvents ==
  \A i \in DOMAIN events :
    /\ (events[i].phase = "download")
         => /\ LeQ(_DOWNLOAD_PROGRESS_START, events[i].progress)
            /\ LeQ(events[i].progress, _DOWNLOAD_PROGRESS_END)
            /\ IsYouTube /\ inv.cb
    /\ (events[i].stage = "Finished downloading YouTube audio")
         => (events[i].progress = _DOWNLOAD_PROGRESS_END /\ events[i].phase = "download")
    /\ (events[i].stage \in {"Downloading YouTube audio", "Finished downloading YouTube audio"})
         => (i > 1 /\ events[1].stage = "Preparing YouTube download"
               /\ events[i].phase = "download")

C14_Witness ==
  /\ pc = "validate" /\ Len(events) = 2
  /\ events[2].stage = "Finished downloading YouTube audio"
  /\ events[2].progress = _DOWNLOAD_PROGRESS_END

\* C15: a call of transcribe, summarize or extract that does not end in a
\* MantisError returns: the output object itself when raw_output is True,
\* the text field of the output object when it is False.
C15_ReturnsTextOrObject ==
  (pc = "done" /\ inv.api \in PublicApis /\ result \notin MantisErrors)
    => (result = "ok" /\ returned = IF inv.raw_output THEN "output" ELSE "text")

\* C16: a call of transcribe, summarize or extract that does not end in a
\* MantisError has handed the caller's model name to the pipeline as
\* model_name and has called GenerativeModel with that name.
C16_ModelNamePassedThrough ==
  (pc = "done" /\ inv.api \in PublicApis /\ result \notin MantisErrors)
    => (model_name = inv.model /\ modelBuilt = inv.model)

\* C17: a call of extract with structured output, to which the model answers
\* with text that is no JSON or that the schema rejects, does not raise
\* (unless a stage of the pipeline failed with a MantisError): it returns.
C17_ExtractFallsBackToRawText ==
  (pc = "done" /\ inv.api = "extract" /\ inv.structured_output
     /\ inv.response \in {"not_json", "invalid_json"} /\ result \notin MantisErrors)
    => (result = "ok" /\ returned \in {"output", "text"})

\* C18: in an ExtractionResult built from a mapping, every key of the mapping
\* that is no declared field is in additional_data with the value it had in
\* the mapping, and every declared field has the mapping's value and is not
\* in additional_data.
C18_ExtrasKeepTheirValues ==
  (built.status = "built") =>
    /\ \A k \in DOMAIN mapping.top \ model_fields :
         k \in DOMAIN built.additional_data /\ built.additional_data[k] = mapping.top[k]
    /\ \A k \in DOMAIN mapping.top \cap model_fields :
         built.fields[k] = mapping.top[k] /\ k \notin DOMAIN built.additional_data

\* C19: the file a cache hit hands over was uploaded from the content the
\* path has now (same path, same mtime and size); a file in hand that is
\* not from the cache was uploaded by this invocation.
C19_NoStaleHit ==
  /\ fromCache =>
       \E u \in uploadedFrom : u.name = file.name /\ u.content = Content(FileToProcess)
  /\ (~fromCache /\ file # NoFile) => (nUpload = 1 /\ file.name = invocations)

\* a.mp3 was uploaded, rewritten, and is uploaded again by the next call
\* while the entry of the first upload is still in the cache
C19_Witness ==
  /\ pc = "done" /\ result = "ok" /\ inv.audio_file.text = "a.mp3"
  /\ localVer["a.mp3"] = 1 /\ ~fromCache /\ nUpload = 1
  /\ \E c \in cache : c.key = <<"a.mp3", 0>> /\ c.name < invocations
  /\ \E c \in cache : c.key = <<"a.mp3", 1>> /\ c.name = invocations

\* C20: the model stage is entered, and generate_content called, only with
\* a file in hand whose last reported state is neither PROCESSING nor
\* FAILED; an invocation whose file in hand was last reported FAILED calls
\* no model and ends in AudioProcessingError.
C20_GenerateOnlyWithReadyFile ==
  /\ (pc \in {"generate", "output"} \/ nGenerate > 0 \/ modelBuilt # "none")
       => file.state \notin {"NONE", "PROCESSING", "FAILED"}
  /\ (file.state = "FAILED") =>
       /\ nGenerate = 0 /\ modelBuilt = "none"
       /\ pc \in {"wait", "except", "finally", "done"}
       /\ (pc \in {"finally", "done"}) => reraised = "AudioProcessingError"
       /\ (pc = "done") => result = "AudioProcessingError"

\* a cached file that the service reports FAILED at a later poll
C20_Witness ==
  /\ pc = "done" /\ fromCache /\ file.state = "FAILED" /\ elapsed > 0
  /\ fault.stage = "wait" /\ fault.cause = "failed" /\ nGenerate = 0
  /\ result = "AudioProcessingError"

C22_WaitEnds ==
  /\ (pc = "wait") ~> (pc # "wait")
  /\ [](pc = "wait" => elapsed <= PollTimeout)
  /\ []((pc # "wait" /\ fault.stage = "wait" /\ fault.cause # "callback")
          => (pc = "except" /\ fault.error = "AudioProcessingError"
                /\ raised = "AudioProcessingError"))
  /\ [][(pc = "wait" /\ file.state # "PROCESSING")
          => (elapsed' = elapsed /\ pc' # "wait")]_vars
  /\ [][(pc = "wait" /\ elapsed' > PollTimeout)
          => (pc' = "except" /\ fault'.error = "AudioProcessingError")]_vars
  /\ [][(pc = "wait" /\ pc' = "wait") => elapsed' > elapsed]_vars

\* the wait ended by the timeout at the first poll that completed after it
C22_Witness ==
  /\ pc = "except" /\ fault.stage = "wait" /\ fault.cause = "timeout"
  /\ elapsed = PollTimeout + 1 /\ raised = "AudioProcessingError"

\* C23: the wait raises its timeout error only with the file last reported
\* PROCESSING; a file that a poll reported in another state ends the wait
\* with its own outcome: the 'failed to process' error when it is FAILED,
\* and no error of the wait otherwise.
C23_TimeoutOnlyWhileProcessing ==
  /\ (fault.stage = "wait" /\ fault.cause = "timeout") => file.state = "PROCESSING"
  /\ (fault.stage = "wait" /\ fault.cause # "callback" /\ file.state = "FAILED")
       => fault.cause = "failed"
  /\ (fault.stage = "wait" /\ fault.cause # "callback")
       => file.state \in {"PROCESSING", "FAILED"}

\* C24: in an invocation whose cache lookup found an entry whose file the
\* service did not return or reported FAILED, the entry is gone from the
\* cache, the file in hand is never that of the entry, the upload stage
\* follows and makes the upload call, the new upload is in the cache once
\* its wait has returned, and no error comes from the lookup: a failure
\* of such an invocation is one of its own upload or of a later stage.
C24_StaleEntryReplaced ==
  (cacheDrop # "none") =>
    /\ ~fromCache
    /\ \A c \in cache : c.key = CacheKey => c.name = invocations
    /\ fault.stage \notin {"validate", "prepare"}
    /\ pc # "prepare"
    /\ (pc \in {"wait", "generate", "output"}) => (nUpload = 1 /\ file.name = invocations)
    /\ (pc \in {"generate", "output"} \/ (pc = "done" /\ result = "ok"))
         => [key |-> CacheKey, name |-> invocations] \in cache
    /\ (fault.stage \in {"generate", "output"})
         => [key |-> CacheKey, name |-> invocations] \in cache

\* the second invocation drops the entry of a file the service no longer
\* has, uploads the file again and returns its output
C24_Witness ==
  /\ pc = "done" /\ result = "ok" /\ cacheDrop = "raises" /\ invocations = 2
  /\ nUpload = 1 /\ CacheKey \in stored
  /\ cache = {[key |-> CacheKey, name |-> 2]}

\* C25: a cache entry written by the running invocation is that of the file
\* it uploaded itself, written with the wait returned and the file last
\* reported neither PROCESSING nor FAILED; every entry names an upload of
\* this or an earlier invocation; an invocation whose upload stage or wait
\* failed (the upload call raised, a poll raised, the wait timed out, the
\* file ended FAILED) has added no entry.
C25_CacheEntriesAreReady ==
  /\ \A c \in cache :
       /\ c.name \in 1..invocations
       /\ \E u \in uploadedFrom : u.name = c.name /\ u.content = c.key
       /\ (pc # "idle" /\ c.name = invocations) =>
            /\ ~fromCache /\ nUpload = 1
            /\ file.name = c.name /\ c.key = CacheKey
            /\ file.state \notin {"NONE", "PROCESSING", "FAILED"}
            /\ pc \in {"generate", "output", "except", "finally", "done"}
            /\ fault.stage \notin {"upload", "wait"}
  /\ (fault.stage \in {"upload", "wait"} \/ (pc # "idle" /\ file.state # "ACTIVE"))
       => ~\E c \in cache : c.name = invocations

\* the upload of the second invocation ended FAILED after a poll: the cache
\* holds the entry of the first invocation alone
C25_Witness ==
  /\ pc = "done" /\ invocations = 2 /\ ~fromCache /\ nUpload = 1
  /\ fault.stage = "wait" /\ fault.cause = "failed" /\ elapsed > 0
  /\ Cardinality(cache) = 1 /\ \A c \in cache : c.name = 1

\* C26 as stated: an invocation on a file whose entry an earlier invocation
\* kept makes no upload call and works on the cached file.
C26_KeptEntryAlwaysReused ==
  (pc \in {"upload", "wait", "generate", "output"} /\ CacheKey \in stored)
    => (fromCache /\ nUpload = 0)

\* C26: the model stage, the handlers, the finally block and the return
\* leave the cache as it is; after a failure of generation or of output
\* creation the entry of the file in hand is in the cache; and an upload
\* call is made only when no entry of an earlier invocation is in the cache
\* for the file (none was stored, or the lookup dropped it because the
\* service did not return its file or reported it FAILED).
C26_ModelFailureKeepsEntry ==
  /\ []((fault.stage \in {"generate", "output"}) =>
          /\ pc \in {"except", "finally", "done"}
          /\ [key |-> CacheKey, name |-> file.name] \in cache
          /\ (~fromCache) => (nUpload = 1 /\ file.name = invocations))
  /\ []((nUpload > 0) =>
          /\ ~fromCache
          /\ ~\E c \in cache : c.key = CacheKey /\ c.name < invocations)
  /\ [](fromCache => (nUpload = 0 /\ cacheDrop = "none"))
  /\ [][(pc \in {"generate", "output", "except", "finally", "done"})
          => (cache' = cache /\ uploadedFrom' = uploadedFrom)]_vars

\* create_output returned None after a fresh upload: the entry is in the cache
C26_Witness ==
  /\ pc = "done" /\ fault.stage = "output" /\ fault.cause = "None"
  /\ result = "ModelInferenceError" /\ ~fromCache
  /\ [key |-> CacheKey, name |-> invocations] \in cache

\* C27: an invocation whose input validation failed goes straight to the
\* handlers with ValidationError: it has made no upload call, no cache
\* lookup, no status poll and no model call, it has no file in hand, and
\* no step of it, before or after the failure, changes the cache.
C27_ValidationFailureIsInert ==
  /\ []((fault.stage = "validate") =>
          /\ pc \in {"except", "finally", "done"}
          /\ raised = "ValidationError"
          /\ nUpload = 0 /\ nGenerate = 0 /\ modelBuilt = "none"
          /\ elapsed = 0 /\ file = NoFile /\ ~fromCache /\ cacheDrop = "none"
          /\ Range(stages) \cap {"upload", "generate", "output"} = {}
          /\ ~\E c \in cache : c.name = invocations)
  /\ [][(pc \in {"start", "download", "validate"} \/ fault.stage = "validate")
          => (cache' = cache /\ uploadedFrom' = uploadedFrom)]_vars

\* the second invocation is rejected by its validator: the entry the first
\* one stored is still the whole cache
C27_Witness ==
  /\ pc = "done" /\ invocations = 2 /\ fault.stage = "validate"
  /\ fault.cause = "rejected" /\ result = "ValidationError"
  /\ nUpload = 0 /\ nGenerate = 0
  /\ Cardinality(cache) = 1 /\ \A c \in cache : c.name = 1

\* C28: within an invocation the progress values the callback receives
\* never decrease: not among the events of one step, and not from the last
\* event of a step to the first event of the step that follows it.
C28_ProgressNeverDecreases ==
  /\ [](\A i, j \in DOMAIN events :
          i < j => LeQ(events[i].progress, events[j].progress))
  /\ [][(events # <<>> /\ events' # <<>>)
          => LeQ(events[Len(events)].progress, events'[1].progress)]_vars

====
